---------------------------- MODULE Spec2Model ----------------------------
(***************************************************************************)
(* Ingestion and retrieval pipeline of teamB_LLM (services.py, views.py,   *)
(* models.py).  The committed database tables are the shared state; every  *)
(* request (service call or HTTP view) runs in a slot of `call` and        *)
(* advances one database statement or one external call at a time.         *)
(***************************************************************************)
EXTENDS Integers, Sequences, FiniteSets, TLC

\* ------------------------------------------------------------------ bounds
MaxSources == 2          \* DataSource ids handed out in one behaviour
MaxDocs == 2             \* files in a clone / URLs in a batch
MaxChunks == 1           \* chunks the splitter makes of one document
MaxQuery == 2            \* query texts are 0..MaxQuery

Procs == {"p1", "p2"}    \* requests in flight at once
Front == {"p2"}          \* the slot serving deletions and queries; the other serves ingestion

\* --------------------------------------------------------- program constants
DefaultK == 5              \* search_documents(k=5)
ResponseK == 3             \* generate_response: search_documents(query, k=3)
SimilarityThreshold == 2   \* settings.SIMILARITY_THRESHOLD (default 0.7) on the integer distance scale of the model

VARIABLES
    sources,     \* DataSource table: id -> row (committed)
    documents,   \* Document table: set of committed rows
    nextId,      \* next primary key of the DataSource table
    temp,        \* the directory BASE_DIR/temp/<repo_name>: 0 when it does not exist,
                 \* else the Source id of the call whose clone it holds
    call         \* Procs -> the request running in that slot

vars == <<sources, documents, nextId, temp, call>>

SourceIds == 1 .. MaxSources

\* models.py: DataSource row; Absent stands for "no row with this id".
Absent == [status |-> "absent", document_count |-> 0, source_type |-> "none"]

DataSource(type, st, n) == [status |-> st, document_count |-> n, source_type |-> type]

\* models.py: Document row.  url is the document (file / URL) of the run the
\* chunk was cut from, content the chunk text.  Texts are numbered: chunk idx
\* of document url reads url + idx, so chunks of different documents and
\* sources can carry the same text.
Document(src, url, idx) ==
    [source |-> src, url |-> url, chunk_index |-> idx, content |-> url + idx]

\* A request slot.  Every slot has all fields; a request uses those it needs.
Idle ==
    [op |-> "idle", view |-> FALSE, pc |-> "idle",
     vsrc |-> 0,            \* views.py: data_source created by the view
     src |-> 0,             \* services.py: data_source created by the service
     mstatus |-> "none",    \* in-memory data_source.status of the service object
     mcount |-> 0,          \* in-memory data_source.document_count
     area |-> 0,            \* the clone DirectoryLoader read: the Source id of the call that made it
     input |-> << >>,       \* per file / URL: the number of chunks in its text, -1 for a failed fetch
     d |-> 1, i |-> 0,      \* position of the staging loop: document d, chunk i
     tx |-> "none",         \* transaction.atomic(): none / open / committed / rolledback
     err |-> "none",        \* the exception raised in the try body
     herr |-> FALSE,        \* the handler itself raised (its rmtree or its data_source.save())
     ret |-> -1,            \* value returned by the service call
     code |-> 0,            \* HTTP status of the view's response
     arg |-> 0,             \* source_id / query
     k |-> 0, thr |-> 0,    \* search parameters
     seen |-> 0,            \* deleted_count read by delete_source_documents
     out |-> << >>,         \* search_documents: the results
     resp |-> "",           \* generate_response: the text
     total |-> -1,          \* get_stats: total_documents
     nsrc |-> -1,           \* get_stats: total_sources
     todo |-> << >>,        \* get_stats: sources still to count
     by_source |-> {}]      \* get_stats: documents_by_source, <<source, count>>

\* ------------------------------------------------------------ pure helpers
RECURSIVE SumSeq(_)
SumSeq(s) == IF s = << >> THEN 0 ELSE Head(s) + SumSeq(Tail(s))

\* services.py 133-163 / 66-80: the documents that put chunks into the staging
\* loop, from input[j] = the number of chunks in the text of file / URL j, or
\* -1 when fetching URL j failed.  A URL whose fetch failed is skipped
\* (except/continue), a URL whose cleaned text is empty is skipped (if text:),
\* and a file without text yields no chunk to loop over.
RECURSIVE Documents(_, _)
Documents(input, j) ==
    IF j > Len(input) THEN << >>
    ELSE LET rest == Documents(input, j + 1)
         IN  IF input[j] <= 0 THEN rest
             ELSE <<[url |-> j, chunks |-> input[j]]>> \o rest

\* documents, as the staging loop of request c sees them.
Docs(c) == Documents(c.input, 1)

\* services.py 80, 170: text_splitter.split_documents([doc]) -> chunk indices.
split_documents(doc) == 0 .. (doc.chunks - 1)

\* services.py 71-94, 168-184: the position of the nested staging loop, moved
\* past documents that have no chunk left.  d = Len(ds) + 1 when the loop is over.
RECURSIVE Skip(_, _, _)
Skip(ds, d, i) ==
    IF d > Len(ds) THEN <<d, 0>>
    ELSE IF i < ds[d].chunks THEN <<d, i>>
    ELSE Skip(ds, d + 1, 0)

\* Rows written so far inside the open transaction of request c
\* (Document.objects.create, services.py 87-93 / 177-183): chunk_index is the
\* enumerate() index within the chunk's own document.
Staged(c) ==
    LET ds == Docs(c)
    IN  {Document(c.src, ds[pos[1]].url, pos[2]) :
            pos \in {q \in (1 .. Len(ds)) \X (0 .. MaxChunks) :
                        /\ q[2] \in split_documents(ds[q[1]])
                        /\ \/ q[1] < c.d
                           \/ q[1] = c.d /\ q[2] < c.i}}

\* services.py 69, 94 / 166, 184: doc_count.
doc_count(c) == Cardinality(Staged(c))

\* Number of chunks the run stages when nothing fails (the M of a run).
TotalChunks(c) == LET ds == Docs(c) IN SumSeq([j \in 1 .. Len(ds) |-> ds[j].chunks])

\* Committed chunks of a source, as any reader's query sees them.
DocumentsOf(s) == {r \in documents : r.source = s}

\* Django Model.save(): UPDATE the row with this pk, INSERT it when no row
\* matched.
save(table, id, row) == [table EXCEPT ![id] = row]

Inputs(op) ==
    UNION {[1 .. n -> (IF op = "web" THEN {-1} ELSE {}) \cup (0 .. MaxChunks)] :
              n \in 0 .. MaxDocs}

\* --------------------------------------------------------------------- Init
Init ==
    /\ sources = [s \in SourceIds |-> Absent]
    /\ documents = {}
    /\ nextId = 1
    /\ temp = 0
    /\ call = [p \in Procs |-> Idle]

\* Where a finished service call hands control: to its caller (done) or back
\* into the view that called it.
AfterReturn(c) ==
    IF c.view THEN [c EXCEPT !.pc = "done", !.code = 200] ELSE [c EXCEPT !.pc = "done"]

AfterRaise(c) ==
    IF c.view THEN [c EXCEPT !.pc = "v_except"] ELSE [c EXCEPT !.pc = "done"]

\* First statement of the service: ingest_github_repo starts by clearing the
\* working directory (services.py 44-45), ingest_web_documents by creating
\* the DataSource (services.py 123).
Entry(op) == IF op = "github" THEN "preclean" ELSE "create"

\* Where an exception raised in the try body is caught: the github handler
\* starts with the directory removal (services.py 107-108), the web handler
\* with the status update (services.py 194).
OnError(c) == IF c.op = "github" THEN "h_clean" ELSE "handler"

\* ------------------------------------------------------ ingestion: service
\* A request arrives: rag_service.ingest_github_repo / ingest_web_documents,
\* called directly or through the HTTP view of the same name.
StartIngest(p, op, view) ==
    /\ p \notin Front
    /\ call[p].op = "idle"
    /\ nextId \in SourceIds
    /\ call' = [call EXCEPT ![p] =
                  [Idle EXCEPT !.op = op, !.view = view,
                               !.pc = IF view THEN "v_create" ELSE Entry(op)]]
    /\ UNCHANGED <<sources, documents, nextId, temp>>

\* services.py 44-45: if temp_path.exists(): shutil.rmtree(temp_path), before
\* the try.  The removal takes whatever the directory holds; when it raises,
\* the exception leaves the call with no handler run.
PreClean(p) ==
    LET c == call[p] IN
    /\ c.pc = "preclean"
    /\ \/ /\ temp' = 0
          /\ call' = [call EXCEPT ![p] = [c EXCEPT !.pc = "create"]]
       \/ /\ temp # 0
          /\ call' = [call EXCEPT ![p] = AfterRaise([c EXCEPT !.err = "rmtree"])]
          /\ UNCHANGED temp
    /\ UNCHANGED <<sources, documents, nextId>>

\* CreateSource leaving status to the model default, 'pending'.
CreateSourcePending(p) ==
    LET c == call[p] IN
    /\ c.pc = "create"
    /\ \/ /\ nextId \in SourceIds
          /\ sources' = save(sources, nextId, DataSource(c.op, "pending", 0))
          /\ nextId' = nextId + 1
          /\ call' = [call EXCEPT ![p] =
                        [c EXCEPT !.src = nextId, !.mstatus = "pending",
                                  !.pc = IF c.op = "github" THEN "clone" ELSE "fetch"]]
       \/ /\ call' = [call EXCEPT ![p] =
                        IF c.op = "github"
                        THEN [c EXCEPT !.err = "create", !.pc = "h_clean"]
                        ELSE AfterRaise([c EXCEPT !.err = "create"])]
          /\ UNCHANGED <<sources, nextId>>
    /\ UNCHANGED <<documents, temp>>

\* services.py 49-55 / 123-128: DataSource.objects.create(status='processing').
\* A failure leaves no row.  In ingest_github_repo the create is inside the
\* try, so the handler runs; in ingest_web_documents it is before the try.
CreateSource(p) ==
    LET c == call[p] IN
    /\ c.pc = "create"
    /\ \/ /\ nextId \in SourceIds
          /\ sources' = save(sources, nextId, DataSource(c.op, "processing", 0))
          /\ nextId' = nextId + 1
          /\ call' = [call EXCEPT ![p] =
                        [c EXCEPT !.src = nextId, !.mstatus = "processing",
                                  !.pc = IF c.op = "github" THEN "clone" ELSE "fetch"]]
       \/ /\ call' = [call EXCEPT ![p] =
                        IF c.op = "github"
                        THEN [c EXCEPT !.err = "create", !.pc = "h_clean"]
                        ELSE AfterRaise([c EXCEPT !.err = "create"])]
          /\ UNCHANGED <<sources, nextId>>
    /\ UNCHANGED <<documents, temp>>

\* services.py 58: git.Repo.clone_from(repo_url, temp_path).  git refuses a
\* destination that exists and holds files; a clone that fails on its own may
\* leave nothing or a directory with part of the repository.
Clone(p) ==
    LET c == call[p] IN
    /\ c.pc = "clone"
    /\ \/ /\ temp = 0
          /\ temp' = c.src
          /\ call' = [call EXCEPT ![p] = [c EXCEPT !.pc = "load"]]
       \/ /\ temp' \in {temp} \cup (IF temp = 0 THEN {c.src} ELSE {})
          /\ call' = [call EXCEPT ![p] = [c EXCEPT !.err = "clone", !.pc = "h_clean"]]
    /\ UNCHANGED <<sources, documents, nextId>>

\* Entering `with transaction.atomic():` with the documents acquired.
BeginStaging(c, input) ==
    LET c1  == [c EXCEPT !.input = input]
        pos == Skip(Docs(c1), 1, 0)
    IN  [c1 EXCEPT !.d = pos[1], !.i = pos[2], !.tx = "open",
                   !.pc = IF pos[1] > Len(Docs(c1)) THEN "save" ELSE "stage"]

\* services.py 61-66: DirectoryLoader(str(temp_path)).load() reads the files
\* the directory holds at that moment and raises when there is no directory.
Load(p) ==
    LET c == call[p] IN
    /\ c.pc = "load"
    /\ \/ /\ temp # 0
          /\ \E input \in Inputs("github") :
               call' = [call EXCEPT ![p] = BeginStaging([c EXCEPT !.area = temp], input)]
       \/ call' = [call EXCEPT ![p] = [c EXCEPT !.err = "load", !.pc = "h_clean"]]
    /\ UNCHANGED <<sources, documents, nextId, temp>>

\* Fetch without the per-URL try/except: one failing URL fails the batch.
FetchAbortOnFailure(p) ==
    LET c == call[p] IN
    /\ c.pc = "fetch"
    /\ \E input \in Inputs("web") :
         /\ c.view => Len(input) >= 1
         /\ call' = [call EXCEPT ![p] =
                       IF \E j \in DOMAIN input : input[j] = -1
                       THEN [c EXCEPT !.input = input, !.err = "fetch", !.pc = OnError(c)]
                       ELSE BeginStaging(c, input)]
    /\ UNCHANGED <<sources, documents, nextId, temp>>

\* services.py 133-163: one requests.get per URL; a failing URL is skipped.
\* The view rejects an empty list before the service is called (views.py 203).
Fetch(p) ==
    LET c == call[p] IN
    /\ c.pc = "fetch"
    /\ \E input \in Inputs("web") :
         /\ c.view => Len(input) >= 1
         /\ call' = [call EXCEPT ![p] = BeginStaging(c, input)]
    /\ UNCHANGED <<sources, documents, nextId, temp>>

\* Stage without the enclosing transaction: every Document.objects.create is
\* committed on its own.
StageAutocommit(p) ==
    LET c == call[p] IN
    /\ c.pc = "stage"
    /\ \/ LET pos == Skip(Docs(c), c.d, c.i + 1)
          IN  /\ call' = [call EXCEPT ![p] =
                            [c EXCEPT !.d = pos[1], !.i = pos[2],
                                      !.pc = IF pos[1] > Len(Docs(c)) THEN "save" ELSE "stage"]]
              /\ documents' = documents \cup {Document(c.src, Docs(c)[c.d].url, c.i)}
       \/ /\ \E e \in {"embed", "persist"} :
               call' = [call EXCEPT ![p] =
                          [c EXCEPT !.err = e, !.tx = "rolledback", !.pc = OnError(c)]]
          /\ UNCHANGED documents
    /\ UNCHANGED <<sources, nextId, temp>>

\* services.py 82-94 / 172-184: one pass of the inner loop: generate_embedding,
\* then Document.objects.create inside the transaction.  Either may raise;
\* leaving the atomic block with an exception rolls the transaction back.
Stage(p) ==
    LET c == call[p] IN
    /\ c.pc = "stage"
    /\ \/ LET pos == Skip(Docs(c), c.d, c.i + 1)
          IN  call' = [call EXCEPT ![p] =
                         [c EXCEPT !.d = pos[1], !.i = pos[2],
                                   !.pc = IF pos[1] > Len(Docs(c)) THEN "save" ELSE "stage"]]
       \/ \E e \in {"embed", "persist"} :
            call' = [call EXCEPT ![p] =
                       [c EXCEPT !.err = e, !.tx = "rolledback", !.pc = OnError(c)]]
    /\ UNCHANGED <<sources, documents, nextId, temp>>

\* SaveCompleted with data_source.save() outside the transaction: the
\* completed row is visible before the chunks are committed.
SaveCompletedAutocommit(p) ==
    LET c  == call[p]
        c1 == [c EXCEPT !.mstatus = "completed", !.mcount = doc_count(c)]
    IN
    /\ c.pc = "save"
    /\ \/ /\ sources' = save(sources, c.src, DataSource(c.op, "completed", doc_count(c)))
          /\ call' = [call EXCEPT ![p] = [c1 EXCEPT !.pc = "commit"]]
       \/ /\ call' = [call EXCEPT ![p] =
                        [c1 EXCEPT !.err = "save", !.tx = "rolledback", !.pc = OnError(c)]]
          /\ UNCHANGED sources
    /\ UNCHANGED <<documents, nextId, temp>>

\* services.py 97-99 / 187-189: the in-memory object is changed first, then
\* data_source.save() runs inside the transaction.
SaveCompleted(p) ==
    LET c  == call[p]
        c1 == [c EXCEPT !.mstatus = "completed", !.mcount = doc_count(c)]
    IN
    /\ c.pc = "save"
    /\ \/ call' = [call EXCEPT ![p] = [c1 EXCEPT !.pc = "commit"]]
       \/ call' = [call EXCEPT ![p] =
                     [c1 EXCEPT !.err = "save", !.tx = "rolledback", !.pc = OnError(c)]]
    /\ UNCHANGED <<sources, documents, nextId, temp>>

\* Leaving the atomic block: COMMIT makes the staged rows and the saved
\* DataSource row visible together, or fails and leaves nothing.
\* services.py 191: ingest_web_documents then returns doc_count;
\* ingest_github_repo goes on to remove its directory (services.py 102).
Commit(p) ==
    LET c  == call[p]
        c1 == [c EXCEPT !.tx = "committed"]
    IN
    /\ c.pc = "commit"
    /\ \/ /\ documents' = documents \cup Staged(c)
          /\ sources' = save(sources, c.src, DataSource(c.op, c.mstatus, c.mcount))
          /\ call' = [call EXCEPT ![p] =
                        IF c.op = "github"
                        THEN [c1 EXCEPT !.pc = "cleanup"]
                        ELSE AfterReturn([c1 EXCEPT !.ret = doc_count(c)])]
       \/ /\ call' = [call EXCEPT ![p] =
                        [c EXCEPT !.err = "commit", !.tx = "rolledback", !.pc = OnError(c)]]
          /\ UNCHANGED <<sources, documents>>
    /\ UNCHANGED <<nextId, temp>>

\* services.py 102-104: shutil.rmtree(temp_path); return doc_count.  The
\* removal is still inside the try: when it raises (the directory is gone, or
\* a file cannot be removed) the handler runs although the transaction has
\* been committed.
Cleanup(p) ==
    LET c == call[p] IN
    /\ c.pc = "cleanup"
    /\ \/ /\ temp # 0
          /\ temp' = 0
          /\ call' = [call EXCEPT ![p] = AfterReturn([c EXCEPT !.ret = doc_count(c)])]
       \/ /\ call' = [call EXCEPT ![p] = [c EXCEPT !.err = "cleanup", !.pc = "h_clean"]]
          /\ UNCHANGED temp
    /\ UNCHANGED <<sources, documents, nextId>>

\* HandlerClean without the removal: the handler goes straight to the status.
HandlerKeepsDirectory(p) ==
    LET c == call[p] IN
    /\ c.pc = "h_clean"
    /\ call' = [call EXCEPT ![p] =
                  IF c.src = 0 THEN AfterRaise(c) ELSE [c EXCEPT !.pc = "handler"]]
    /\ UNCHANGED <<sources, documents, nextId, temp>>

\* services.py 107-110: if temp_path.exists(): shutil.rmtree(temp_path), then
\* the test `'data_source' in locals()`, which is false when the create
\* itself failed.  When the removal raises, that exception leaves the call
\* and the status is not updated.
HandlerClean(p) ==
    LET c == call[p] IN
    /\ c.pc = "h_clean"
    /\ \/ /\ temp' = 0
          /\ call' = [call EXCEPT ![p] =
                        IF c.src = 0 THEN AfterRaise(c) ELSE [c EXCEPT !.pc = "handler"]]
       \/ /\ temp # 0
          /\ call' = [call EXCEPT ![p] = AfterRaise([c EXCEPT !.herr = TRUE])]
          /\ UNCHANGED temp
    /\ UNCHANGED <<sources, documents, nextId>>

\* Handler that re-raises without storing the failed status.
HandlerNoSave(p) ==
    LET c == call[p] IN
    /\ c.pc = "handler"
    /\ call' = [call EXCEPT ![p] = AfterRaise([c EXCEPT !.mstatus = "failed"])]
    /\ UNCHANGED <<sources, documents, nextId, temp>>

\* services.py 111-115 / 193-197: data_source.status = 'failed';
\* data_source.save(); raise e.  save() writes every field of the in-memory
\* object; when it raises itself, that exception leaves the call instead.
Handler(p) ==
    LET c  == call[p]
        c1 == [c EXCEPT !.mstatus = "failed"]
    IN
    /\ c.pc = "handler"
    /\ \/ /\ sources' = save(sources, c.src, DataSource(c.op, "failed", c.mcount))
          /\ call' = [call EXCEPT ![p] = AfterRaise(c1)]
       \/ /\ call' = [call EXCEPT ![p] = AfterRaise([c1 EXCEPT !.herr = TRUE])]
          /\ UNCHANGED sources
    /\ UNCHANGED <<documents, nextId, temp>>

\* --------------------------------------------------------- ingestion: views
\* views.py 161-162, 203-204: a request without repo_url / urls is answered 400.
ViewReject(p, op) ==
    /\ p \notin Front
    /\ call[p].op = "idle"
    /\ call' = [call EXCEPT ![p] =
                  [Idle EXCEPT !.op = op, !.view = TRUE, !.pc = "done", !.code = 400]]
    /\ UNCHANGED <<sources, documents, nextId, temp>>

\* views.py 169-174 / 207-211: the view creates a DataSource of its own.  A
\* failure is caught by the outer except (500).
ViewCreate(p) ==
    LET c == call[p] IN
    /\ c.pc = "v_create"
    /\ \/ /\ nextId \in SourceIds
          /\ sources' = save(sources, nextId, DataSource(c.op, "processing", 0))
          /\ nextId' = nextId + 1
          /\ call' = [call EXCEPT ![p] = [c EXCEPT !.vsrc = nextId, !.pc = Entry(c.op)]]
       \/ /\ call' = [call EXCEPT ![p] = [c EXCEPT !.pc = "done", !.code = 500]]
          /\ UNCHANGED <<sources, nextId>>
    /\ UNCHANGED <<documents, temp>>

\* views.py 185 / 218: 'id': data_source.id, the DataSource the view created.
ResponseId(c) == c.vsrc

\* views.py 179-182: the github view marks its own DataSource failed and
\* answers 500; views.py 224-225: the web view only answers 500.
ViewExcept(p) ==
    LET c == call[p] IN
    /\ c.pc = "v_except"
    /\ call' = [call EXCEPT ![p] = [c EXCEPT !.pc = "done", !.code = 500]]
    /\ \/ /\ c.op = "github"
          /\ sources' = save(sources, c.vsrc, DataSource("github", "failed", 0))
       \/ UNCHANGED sources
    /\ UNCHANGED <<documents, nextId, temp>>

\* ------------------------------------------------------------------ delete
\* rag_service.delete_source_documents(source_id), called directly or through
\* the view delete_data_source (DELETE /sources/<id>).
StartDelete(p, id, view) ==
    /\ p \in Front
    /\ call[p].op = "idle"
    /\ call' = [call EXCEPT ![p] =
                  [Idle EXCEPT !.op = "delete", !.view = view, !.arg = id,
                               !.pc = IF view THEN "vd_get" ELSE "d_get"]]
    /\ UNCHANGED <<sources, documents, nextId, temp>>

\* views.py 258, 271-272: DataSource.objects.get(id=source_id), 404 when missing.
ViewDeleteGet(p) ==
    LET c == call[p] IN
    /\ c.pc = "vd_get"
    /\ call' = [call EXCEPT ![p] =
                  IF sources[c.arg] = Absent
                  THEN [c EXCEPT !.pc = "done", !.code = 404, !.err = "notfound"]
                  ELSE [c EXCEPT !.pc = "d_get"]]
    /\ UNCHANGED <<sources, documents, nextId, temp>>

\* DeleteGet treating a missing Source as a Source without chunks.
DeleteGetLenient(p) ==
    LET c == call[p] IN
    /\ c.pc = "d_get"
    /\ call' = [call EXCEPT ![p] = [c EXCEPT !.pc = "d_count"]]
    /\ UNCHANGED <<sources, documents, nextId, temp>>

\* services.py 277, 281-282: DataSource.objects.get; DoesNotExist becomes
\* ValueError, which the view's outer except answers with 500 (views.py 273).
DeleteGet(p) ==
    LET c == call[p] IN
    /\ c.pc = "d_get"
    /\ call' = [call EXCEPT ![p] =
                  IF sources[c.arg] = Absent
                  THEN [c EXCEPT !.pc = "done", !.err = "notfound",
                                 !.code = IF c.view THEN 500 ELSE 0]
                  ELSE [c EXCEPT !.pc = "d_count"]]
    /\ UNCHANGED <<sources, documents, nextId, temp>>

\* services.py 278: deleted_count = source.documents.count().
DeleteCount(p) ==
    LET c == call[p] IN
    /\ c.pc = "d_count"
    /\ call' = [call EXCEPT ![p] =
                  [c EXCEPT !.seen = Cardinality(DocumentsOf(c.arg)), !.pc = "d_delete"]]
    /\ UNCHANGED <<sources, documents, nextId, temp>>

\* services.py 279-280: source.documents.all().delete(); return deleted_count.
\* The DataSource row is not touched.
DeleteDocuments(p) ==
    LET c == call[p] IN
    /\ c.pc = "d_delete"
    /\ documents' = documents \ DocumentsOf(c.arg)
    /\ call' = [call EXCEPT ![p] =
                  [c EXCEPT !.ret = c.seen, !.pc = IF c.view THEN "vd_delete" ELSE "done"]]
    /\ UNCHANGED <<sources, nextId, temp>>

\* views.py 264-269: source.delete() removes the row and, by on_delete=CASCADE
\* (models.py 54), the Document rows that reference it; the response carries
\* the count the service returned.
ViewDeleteSource(p) ==
    LET c == call[p] IN
    /\ c.pc = "vd_delete"
    /\ sources' = [sources EXCEPT ![c.arg] = Absent]
    /\ documents' = documents \ DocumentsOf(c.arg)
    /\ call' = [call EXCEPT ![p] = [c EXCEPT !.pc = "done", !.code = 200]]
    /\ UNCHANGED <<nextId, temp>>

\* --------------------------------------------------------------- retrieval
\* services.py 31-34: the embedding of a text, a vector of VECTOR_DIMENSION
\* components (one in the model).
generate_embedding(text) == <<text>>

Abs(x) == IF x < 0 THEN 0 - x ELSE x

\* pgvector L2Distance of two vectors of one component.
L2Distance(a, b) == Abs(a[1] - b[1])

\* services.py 208-212: annotate(distance).filter(distance__lt=threshold)
Filtered(query_embedding, threshold) ==
    {r \in documents : L2Distance(generate_embedding(r.content), query_embedding) < threshold}

\* Ordered without the order_by: the rows in any arrangement.
Unordered(rows, query_embedding) ==
    {s \in [1 .. Cardinality(rows) -> rows] : \A a, b \in DOMAIN s : a # b => s[a] # s[b]}

\* services.py 212: order_by('distance').  SQL leaves the order of rows with
\* equal distance open: every ascending arrangement is a possible answer.
Ordered(rows, query_embedding) ==
    {s \in [1 .. Cardinality(rows) -> rows] :
        /\ \A a, b \in DOMAIN s : a # b => s[a] # s[b]
        /\ \A a, b \in DOMAIN s :
              a < b => L2Distance(generate_embedding(s[a].content), query_embedding)
                       <= L2Distance(generate_embedding(s[b].content), query_embedding)}

\* services.py 212, 215-228: [:k], then one result per row with its distance.
Results(s, k, query_embedding) ==
    [n \in 1 .. (IF k < Len(s) THEN k ELSE Len(s)) |->
        [doc |-> s[n],
         distance |-> L2Distance(generate_embedding(s[n].content), query_embedding)]]

\* All answers search_documents(query, k, threshold) can give in this state.
search_documents(query, k, threshold) ==
    LET qe == generate_embedding(query)
    IN  {Results(s, k, qe) : s \in Ordered(Filtered(qe, threshold), qe)}

Thresholds == {1, SimilarityThreshold}
Ks == {-1, 0, 1, DefaultK}

\* services.py 199-228 (views.py 279-303 passes k through).  A negative k
\* makes the queryset slice raise.
Search(p) ==
    /\ p \in Front
    /\ call[p].op = "idle"
    /\ \E query \in 0 .. MaxQuery, k \in Ks, thr \in Thresholds :
         \/ /\ k >= 0
            /\ \E res \in search_documents(query, k, thr) :
                 call' = [call EXCEPT ![p] =
                            [Idle EXCEPT !.op = "search", !.pc = "done", !.arg = query,
                                         !.k = k, !.thr = thr, !.out = res]]
         \/ /\ k < 0
            /\ call' = [call EXCEPT ![p] =
                          [Idle EXCEPT !.op = "search", !.pc = "done", !.arg = query,
                                       !.k = k, !.thr = thr, !.err = "slice"]]
    /\ UNCHANGED <<sources, documents, nextId, temp>>

\* services.py 236: the fixed answer when nothing was retrieved.
InsufficientKnowledge == "I don't have enough information in my knowledge base to answer that question. Please add some documents or repositories first."

\* services.py 252: every other answer starts with this line.
BasedOn == "Based on the available documents, here's what I found relevant to your question:"

\* generate_response giving up on a single retrieved chunk as well.
generate_response_sparse(docs) == IF Len(docs) <= 1 THEN InsufficientKnowledge ELSE BasedOn

\* services.py 230-260: generate_response(query).
generate_response(docs) == IF docs = << >> THEN InsufficientKnowledge ELSE BasedOn

Respond(p) ==
    /\ p \in Front
    /\ call[p].op = "idle"
    /\ \E query \in 0 .. MaxQuery :
         \E docs \in search_documents(query, ResponseK, SimilarityThreshold) :
            call' = [call EXCEPT ![p] =
                       [Idle EXCEPT !.op = "respond", !.pc = "done", !.arg = query,
                                    !.k = ResponseK, !.thr = SimilarityThreshold,
                                    !.out = docs, !.resp = generate_response(docs)]]
    /\ UNCHANGED <<sources, documents, nextId, temp>>

\* services.py 262-272: get_stats() issues one query per line: the two totals,
\* the list of sources, then one count per source.
StatsTotals(p) ==
    /\ p \in Front
    /\ call[p].op = "idle"
    /\ call' = [call EXCEPT ![p] =
                  [Idle EXCEPT !.op = "stats", !.pc = "s_sources",
                               !.total = Cardinality(documents)]]
    /\ UNCHANGED <<sources, documents, nextId, temp>>

RECURSIVE Ascending(_)
Ascending(S) ==
    IF S = {} THEN << >>
    ELSE LET m == CHOOSE x \in S : \A y \in S : x <= y
         IN  <<m>> \o Ascending(S \ {m})

Present == {s \in SourceIds : sources[s] # Absent}

StatsSources(p) ==
    LET c == call[p] IN
    /\ c.pc = "s_sources"
    /\ call' = [call EXCEPT ![p] =
                  [c EXCEPT !.nsrc = Cardinality(Present), !.pc = "s_list"]]
    /\ UNCHANGED <<sources, documents, nextId, temp>>

StatsList(p) ==
    LET c == call[p] IN
    /\ c.pc = "s_list"
    /\ call' = [call EXCEPT ![p] =
                  [c EXCEPT !.todo = Ascending(Present),
                            !.pc = IF Present = {} THEN "done" ELSE "s_count"]]
    /\ UNCHANGED <<sources, documents, nextId, temp>>

StatsCount(p) ==
    LET c == call[p]
        s == Head(c.todo)
    IN
    /\ c.pc = "s_count"
    /\ call' = [call EXCEPT ![p] =
                  [c EXCEPT !.by_source = @ \cup {<<s, Cardinality(DocumentsOf(s))>>},
                            !.todo = Tail(@),
                            !.pc = IF Tail(c.todo) = << >> THEN "done" ELSE "s_count"]]
    /\ UNCHANGED <<sources, documents, nextId, temp>>

\* The caller has its answer; the slot is free for the next request.
Finish(p) ==
    /\ call[p].pc = "done"
    /\ call' = [call EXCEPT ![p] = Idle]
    /\ UNCHANGED <<sources, documents, nextId, temp>>

IngestStep(p) ==
    \/ \E op \in {"github", "web"}, view \in BOOLEAN : StartIngest(p, op, view)
    \/ \E op \in {"github", "web"} : ViewReject(p, op)
    \/ ViewCreate(p)
    \/ PreClean(p)
    \/ CreateSource(p)
    \/ Clone(p)
    \/ Load(p)
    \/ Fetch(p)
    \/ Stage(p)
    \/ SaveCompleted(p)
    \/ Commit(p)
    \/ Cleanup(p)
    \/ HandlerClean(p)
    \/ Handler(p)
    \/ ViewExcept(p)

DeleteStep(p) ==
    \/ \E id \in SourceIds, view \in BOOLEAN : StartDelete(p, id, view)
    \/ ViewDeleteGet(p)
    \/ DeleteGet(p)
    \/ DeleteCount(p)
    \/ DeleteDocuments(p)
    \/ ViewDeleteSource(p)

ReadStep(p) ==
    \/ Search(p)
    \/ Respond(p)
    \/ StatsTotals(p)
    \/ StatsSources(p)
    \/ StatsList(p)
    \/ StatsCount(p)

Next == \E p \in Procs : IngestStep(p) \/ DeleteStep(p) \/ ReadStep(p) \/ Finish(p)

Spec == Init /\ [][Next]_vars

\* Ingestion running against readers only: no request deletes anything.
NextReaders == \E p \in Procs : IngestStep(p) \/ ReadStep(p) \/ Finish(p)

SpecReaders == Init /\ [][NextReaders]_vars

\* Two callers of rag_service.ingest_github_repo with the same repo_name at
\* once, hence the same temp_path (services.py 38-41): either slot may run
\* the call.
StartGithub(p) ==
    /\ call[p].op = "idle"
    /\ nextId \in SourceIds
    /\ call' = [call EXCEPT ![p] = [Idle EXCEPT !.op = "github", !.pc = Entry("github")]]
    /\ UNCHANGED <<sources, documents, nextId, temp>>

NextClones ==
    \E p \in Procs :
        \/ StartGithub(p)
        \/ PreClean(p)
        \/ CreateSource(p)
        \/ Clone(p)
        \/ Load(p)
        \/ Stage(p)
        \/ SaveCompleted(p)
        \/ Commit(p)
        \/ Cleanup(p)
        \/ HandlerClean(p)
        \/ Handler(p)
        \/ Finish(p)

SpecClones == Init /\ [][NextClones]_vars

\* ------------------------------------------------------------------ claims
IngestOps == {"github", "web"}

PersistenceErrors == {"persist", "save", "commit"}

\* Committed chunks of source s after the step.
DocumentsOfNext(s) == {r \in documents' : r.source = s}

\* C1: ingestion atomicity.  When a run that stages M chunks meets a
\* persistence failure after N chunk writes (a failed Document create, a
\* failed status save inside the block, a failed commit), then when the call
\* ends the store holds 0 or M chunks of the run, never a number in between,
\* and the Source is failed (the handler's save of that status succeeding).
C1_IngestionAtomicity ==
    [][\A p \in Procs :
         LET c == call[p] IN
         (/\ c.pc = "handler"
          /\ c.err \in PersistenceErrors
          /\ call'[p].pc # "handler")
         => /\ Cardinality(DocumentsOfNext(c.src)) \in {0, TotalChunks(c)}
            /\ ~call'[p].herr => sources'[c.src].status = "failed"]_vars

\* A run of M = 2 chunks failed on its second Document create (N = 1), was
\* rolled back and marked failed.
C1_Witness ==
    \E p \in Procs :
        LET c == call[p] IN
        /\ c.op \in IngestOps /\ c.pc = "done"
        /\ c.err = "persist" /\ ~c.herr
        /\ doc_count(c) = 1 /\ TotalChunks(c) = 2
        /\ sources[c.src].status = "failed"
        /\ DocumentsOf(c.src) = {}

\* C2: with ingestion and readers interleaved, no reader sees a partly written
\* chunk set: the chunks of a run visible in the store number 0 or the full M,
\* every per-source count get_stats has read is 0 or the full chunk set of
\* that source, and a Source visible as completed has all document_count
\* chunks visible.
C2_NoPartialRead ==
    /\ \A p \in Procs :
         LET c == call[p] IN
         (c.op \in IngestOps /\ c.src # 0)
         => Cardinality(DocumentsOf(c.src)) \in {0, TotalChunks(c)}
    /\ \A s \in SourceIds :
         sources[s].status = "completed"
         => Cardinality(DocumentsOf(s)) >= sources[s].document_count
    /\ \A p \in Procs :
         \A e \in call[p].by_source :
            e[2] \in {0, Cardinality(DocumentsOf(e[1]))}

\* get_stats counted 0 chunks for a Source whose run has staged both of its
\* chunks and has not committed yet.
C2_Witness ==
    \E p, q \in Procs :
        /\ call[p].op \in IngestOps /\ call[p].pc = "commit"
        /\ doc_count(call[p]) = 2
        /\ call[q].op = "stats"
        /\ <<call[p].src, 0>> \in call[q].by_source

\* C3: every completed Source has document_count equal to the number of its
\* persisted chunks, and a successful ingest call returns that number.
C3_CountMatchesChunks ==
    /\ \A s \in SourceIds :
         sources[s].status = "completed"
         => sources[s].document_count = Cardinality(DocumentsOf(s))
    /\ \A p \in Procs :
         (call[p].op \in IngestOps /\ call[p].ret # -1)
         => call[p].ret = call[p].mcount

\* C4: when an ingestion request finishes, no Source it created is left in
\* processing: completed after a success, failed after an error (the status
\* save of the handler itself succeeding).
C4_RegistryReflectsOutcome ==
    [][\A p \in Procs :
         LET c == call'[p] IN
         (/\ c.op \in IngestOps
          /\ call[p].pc # "done" /\ c.pc = "done"
          /\ ~c.herr)
         => \A s \in {c.src, c.vsrc} \ {0} :
               /\ sources'[s].status # "processing"
               /\ c.err = "none" => sources'[s].status = "completed"
               /\ c.err # "none" => sources'[s].status = "failed"]_vars

\* C5: when the clone or the document load of ingest_github_repo raises, the
\* Source of the call becomes failed (the handler's save of that status
\* succeeding), the call ends with an error instead of a count, and no chunk
\* of that Source is written.
C5_AcquisitionFailure ==
    [][\A p \in Procs :
         LET c == call[p] IN
         (/\ c.op = "github" /\ c.pc = "handler"
          /\ c.err \in {"clone", "load"}
          /\ call'[p].pc # "handler")
         => /\ ~call'[p].herr => sources'[c.src].status = "failed"
            /\ call'[p].err = c.err /\ call'[p].ret = -1
            /\ call'[p].pc = IF c.view THEN "v_except" ELSE "done"
            /\ c.tx = "none"
            /\ DocumentsOfNext(c.src) = {}]_vars

\* The clone failed; the call ended with that error and a failed Source.
C5_Witness ==
    \E p \in Procs :
        LET c == call[p] IN
        /\ c.op = "github" /\ c.pc = "done" /\ ~c.view
        /\ c.err = "clone" /\ ~c.herr
        /\ sources[c.src].status = "failed"
        /\ DocumentsOf(c.src) = {}

\* Chunks of the URLs of a batch whose fetch gave text.
FetchedChunks(input) ==
    SumSeq([j \in 1 .. Len(input) |-> IF input[j] > 0 THEN input[j] ELSE 0])

\* C6: whichever URLs of a batch fail to fetch, all of them included, the
\* fetch loop of ingest_web_documents raises nothing, and the call that then
\* commits persists the chunks of the fetched URLs only, returns their
\* number, and leaves the Source completed with that document_count.
C6_FailedUrlsSkipped ==
    [][\A p \in Procs :
         LET c == call[p]
             n == FetchedChunks(c.input)
         IN
         /\ (c.pc = "fetch" /\ call'[p].pc # "fetch")
            => /\ call'[p].err = "none"
               /\ call'[p].pc \in {"stage", "save"}
         /\ (c.op = "web" /\ c.pc = "commit" /\ call'[p].tx = "committed")
            => /\ call'[p].ret = n
               /\ call'[p].err = "none"
               /\ Cardinality(DocumentsOfNext(c.src)) = n
               /\ \A r \in DocumentsOfNext(c.src) :
                     r.url \in DOMAIN c.input /\ c.input[r.url] > 0
               /\ sources'[c.src] = DataSource("web", "completed", n)]_vars

\* URLs [A, B], B failing: the call returned A's one chunk.
C6_Witness ==
    \E p \in Procs :
        LET c == call[p] IN
        /\ c.op = "web" /\ c.pc = "done" /\ c.err = "none"
        /\ c.input = <<1, -1>>
        /\ c.ret = 1
        /\ sources[c.src] = DataSource("web", "completed", 1)

Distance(r, query) == L2Distance(generate_embedding(r.content), generate_embedding(query))

\* C8: search_documents returns at most k results, each with distance below
\* the threshold, in ascending distance order, each a distinct stored chunk
\* with its true distance, and no chunk left out is nearer than a returned one.
C8_SearchRanking ==
    [][\A p \in Procs :
         LET c   == call'[p]
             res == c.out
             got == {res[n].doc : n \in DOMAIN res}
         IN
         (call[p].op = "idle" /\ c.op = "search" /\ c.err = "none")
         => /\ Len(res) <= c.k
            /\ \A n \in DOMAIN res :
                  /\ res[n].doc \in documents
                  /\ res[n].distance = Distance(res[n].doc, c.arg)
                  /\ res[n].distance < c.thr
            /\ \A a, b \in DOMAIN res :
                  a < b => res[a].distance <= res[b].distance /\ res[a].doc # res[b].doc
            /\ \A r \in documents \ got :
                  \A n \in DOMAIN res : ~(Distance(r, c.arg) < res[n].distance)]_vars

\* A search with k = 1 returned the nearest of several chunks under the
\* threshold that lie at different distances.
C8_Witness ==
    \E p \in Procs :
        LET c == call[p] IN
        /\ c.op = "search" /\ c.k = 1 /\ Len(c.out) = 1
        /\ \E r \in documents :
              /\ Distance(r, c.arg) < c.thr
              /\ Distance(r, c.arg) > c.out[1].distance

\* C9: when no stored chunk is below the threshold (the empty corpus
\* included), search_documents (k >= 0) returns the empty sequence without
\* raising, and generate_response returns the fixed message; it returns that
\* message in no other case.
C9_InsufficientKnowledge ==
    [][\A p \in Procs :
         LET c       == call'[p]
             nothing == \A r \in documents : ~(Distance(r, c.arg) < c.thr)
         IN
         /\ (call[p].op = "idle" /\ c.op = "search" /\ c.k >= 0 /\ nothing)
            => c.err = "none" /\ c.out = << >>
         /\ (call[p].op = "idle" /\ c.op = "respond")
            => /\ c.err = "none"
               /\ c.thr = SimilarityThreshold
               /\ (c.resp = InsufficientKnowledge) <=> nothing]_vars

\* generate_response gave the fixed message over a corpus that is not empty.
C9_Witness ==
    \E p \in Procs :
        /\ call[p].op = "respond"
        /\ call[p].resp = InsufficientKnowledge
        /\ documents # {}

\* C10: the delete_data_source view removes exactly chunk_count chunks of the
\* Source, reports that number, leaves the chunks of other Sources alone, and
\* leaves no chunk of the deleted Source.
C10_DeleteRemovesChunkCount ==
    [][\A p \in Procs :
         LET c == call[p] IN
         (c.pc = "vd_delete" /\ call'[p].pc = "done")
         => /\ sources[c.arg] # Absent => c.ret = sources[c.arg].document_count
            /\ DocumentsOf(c.arg) = {}
            /\ DocumentsOfNext(c.arg) = {}
            /\ \A s \in SourceIds \ {c.arg} : DocumentsOfNext(s) = DocumentsOf(s)]_vars

\* C11: a delete request for a Source id that has no row (never created, or
\* deleted before) ends with the not-found error, ValueError from
\* delete_source_documents and 404 from the delete_data_source view, returns
\* no count, and leaves the Sources and the chunks as they were.
C11_DeleteMissing ==
    [][\A p \in Procs :
         LET c == call[p] IN
         (/\ c.op = "delete" /\ c.pc \in {"vd_get", "d_get"}
          /\ sources[c.arg] = Absent
          /\ call'[p] # c)
         => /\ call'[p].pc = "done"
            /\ call'[p].err = "notfound"
            /\ call'[p].ret = -1
            /\ c.pc = "vd_get" => call'[p].code = 404
            /\ sources' = sources
            /\ documents' = documents]_vars

\* The view answered 404 for a Source that had been created and deleted.
C11_Witness ==
    \E p \in Procs :
        LET c == call[p] IN
        /\ c.op = "delete" /\ c.view /\ c.pc = "done"
        /\ c.err = "notfound" /\ c.code = 404
        /\ nextId > c.arg
        /\ sources[c.arg] = Absent

\* C12: on every exit of ingest_github_repo after its Source was created
\* (return after the commit, clone or load failure, failure while staging,
\* saving or committing, failure of the handler's status save) the directory
\* cloned for the call is gone, every removal the call attempted having
\* succeeded.
C12_WorkingAreaRemoved ==
    [][\A p \in Procs :
         LET c == call[p] IN
         (/\ c.op = "github" /\ c.src # 0
          /\ c.pc \in {"cleanup", "h_clean", "handler"}
          /\ call'[p].pc \in {"done", "v_except"}
          /\ ~(c.pc = "h_clean" /\ call'[p].herr))
         => temp' # c.src]_vars

\* A call that had loaded its clone failed on a chunk and ended with the
\* directory removed.
C12_Witness ==
    \E p \in Procs :
        LET c == call[p] IN
        /\ c.op = "github" /\ c.pc = "done"
        /\ c.err \in {"embed", "persist"}
        /\ c.area = c.src
        /\ temp = 0

\* github calls in flight other than the one in slot p, by their Source.
OtherClones(p) ==
    {call[q].src : q \in {r \in Procs \ {p} :
                            /\ call[r].op = "github"
                            /\ call[r].pc \notin {"idle", "done"}
                            /\ call[r].src # 0}}

\* C13: with two ingest_github_repo calls for one repo name in flight, no
\* step of a call removes or replaces the directory holding the clone of the
\* other call, and the files a call loads are those of its own clone.
C13_WorkingAreasDisjoint ==
    [][\A p \in Procs :
         call'[p] # call[p]
         => /\ temp \in OtherClones(p) => temp' = temp
            /\ call'[p].area # call[p].area => call'[p].area = call[p].src]_vars

\* C14: no two persisted chunks of one Source carry the same chunk_index.
C14_ChunkIndexUnique ==
    \A r, q \in documents :
        (r.source = q.source /\ r.chunk_index = q.chunk_index) => r = q

\* C15: a Source stored as pending or processing has document_count 0, and a
\* Source stored as failed has document_count equal to the number of its
\* persisted chunks.
C15_CountOfUnfinished ==
    \A s \in SourceIds :
        /\ sources[s].status \in {"pending", "processing"}
           => sources[s].document_count = 0
        /\ sources[s].status = "failed"
           => sources[s].document_count = Cardinality(DocumentsOf(s))

\* C16: a stored status moves from processing to completed or to failed
\* only; a Source stored as completed or failed keeps that status for as long
\* as its row exists.
C16_StatusAbsorbing ==
    [][\A s \in SourceIds :
         /\ sources[s].status \in {"completed", "failed"}
            => sources'[s].status \in {sources[s].status, "absent"}
         /\ sources[s].status = "processing"
            => sources'[s].status \in {"processing", "completed", "failed", "absent"}]_vars

\* C17: an ingestion request through a view creates one Source, and the id
\* in its 200 response is that of the Source which owns the chunks of the
\* request and is stored as completed with their number.
C17_ResponseNamesOwner ==
    [][\A p \in Procs :
         LET c == call[p] IN
         (/\ c.op \in IngestOps /\ c.view
          /\ c.code # 200 /\ call'[p].code = 200)
         => /\ c.src = c.vsrc
            /\ \A r \in Staged(c) : r.source = ResponseId(c)
            /\ sources'[ResponseId(c)] = DataSource(c.op, "completed", call'[p].ret)]_vars

\* C18: the count delete_source_documents returns is the number of chunks
\* its delete statement removed.
C18_DeleteCountsWhatItRemoves ==
    [][\A p \in Procs :
         LET c == call[p] IN
         (c.op = "delete" /\ c.pc = "d_delete" /\ call'[p].pc # "d_delete")
         => call'[p].ret = Cardinality(DocumentsOf(c.arg) \ DocumentsOfNext(c.arg))]_vars

=============================================================================
